---- MODULE Spec2Model ----
(***************************************************************************)
(* Model of the Custom-RAG backend: the sentence-aware chunker             *)
(* (app/services/chunker.py) and the per-session vector collection         *)
(* (app/core/vector_client.py, app/api/document.py).                       *)
(*                                                                         *)
(* A text is a sequence of one-character strings.  Python offsets are     *)
(* 0-based and slices are half open: text[a:b] is SubSeq(text, a+1, b).    *)
(***************************************************************************)
EXTENDS Integers, Sequences, FiniteSets, TLC

VARIABLES
    rawText,      \* chunk_text: the text argument as passed
    strategy,     \* chunk_text: the strategy argument
    pc,           \* chunk_text: "call", "loop" or "done"
    text,         \* chunk_text: local text (stripped at line 49)
    chunk_size, overlap, n, min_advance, start, end, split_pos,
    chunks,       \* chunk_text: the list returned
    iters,        \* history: number of loop iterations run
    windows,      \* history: <<start, split_pos>> of every iteration, in order
    existing,     \* Qdrant: sessions whose collection rag_document_<id> exists
    points,       \* Qdrant: per session, point id -> [vector, text]
    upserted,     \* history: per session, every (text, vector) handed to upsert
    response      \* upload_document: outcome of the last request

chunkVars == <<rawText, strategy, pc, text, chunk_size, overlap, n,
               min_advance, start, end, split_pos, chunks, iters, windows>>

storeVars == <<existing, points, upserted, response>>

vars == <<chunkVars, storeVars>>

(***************************************************************************)
(* Bounds of the explored inputs.                                          *)
(***************************************************************************)
MaxShortLen == 3
LenStep == 300
MaxLenSteps == 3
MaxRepeats == 40
MaxDocChunks == 2

(***************************************************************************)
(* Characters.                                                             *)
(***************************************************************************)
Whitespace == {" ", "\n", "\t"}
Terminators == {".", "!", "?"}
Quotes == {"\"", "'"}

None == -1

Max(a, b) == IF a >= b THEN a ELSE b
Min(a, b) == IF a <= b THEN a ELSE b

(* variant of Strip: lstrip only *)
Strip_LeadingOnly(s) ==
    IF \A i \in 1..Len(s) : s[i] \in Whitespace
    THEN <<>>
    ELSE LET i == CHOOSE i \in 1..Len(s) :
                      /\ s[i] \notin Whitespace
                      /\ \A k \in 1..(i - 1) : s[k] \in Whitespace
         IN  SubSeq(s, i, Len(s))

(* str.strip(): drop leading and trailing whitespace. *)
Strip(s) ==
    IF \A i \in 1..Len(s) : s[i] \in Whitespace
    THEN <<>>
    ELSE LET i == CHOOSE i \in 1..Len(s) :
                      /\ s[i] \notin Whitespace
                      /\ \A k \in 1..(i - 1) : s[k] \in Whitespace
             m == Len(s)
             d == CHOOSE d \in 0..(m - 1) :
                      /\ s[m - d] \notin Whitespace
                      /\ \A k \in (m - d + 1)..m : s[k] \in Whitespace
         IN  SubSeq(s, i, m - d)

(* text[a:b] *)
Slice(s, a, b) == SubSeq(s, a + 1, b)

(***************************************************************************)
(* SentenceBoundaryRegex = [\.!?]["\']?\s+|\n+ , matched at offset p of    *)
(* s with the string cut at endpos e.  The result is the end offset of    *)
(* the match, or None.  The repetitions are greedy: RunEnd is the end of  *)
(* the longest run of class characters that starts at p.                  *)
(***************************************************************************)
RunEnd(s, p, e, class) ==
    CHOOSE j \in p..e :
        /\ j = e \/ s[j + 1] \notin class
        /\ \A k \in p..(j - 1) : s[k + 1] \in class

MatchAt(s, p, e) ==
    IF s[p + 1] \in Terminators
    THEN LET q == IF p + 1 < e /\ s[p + 2] \in Quotes THEN p + 2 ELSE p + 1
         IN  IF q < e /\ s[q + 1] \in Whitespace
             THEN RunEnd(s, q, e, Whitespace)
             ELSE None
    ELSE IF s[p + 1] = "\n"
    THEN RunEnd(s, p, e, {"\n"})
    ELSE None

(***************************************************************************)
(* finditer(text, start, end) tries the pattern at each offset from left  *)
(* to right, skipping the offsets a previous match has consumed.  The     *)
(* scan state is <<resume, last>>: the offset the search resumes at and   *)
(* the end of the last match found.  The offsets lo..hi-1 are visited in  *)
(* increasing order (the range is halved to keep the evaluation shallow). *)
(***************************************************************************)
(* variant of ScanAt: the first match is kept instead of the last *)
ScanAt_KeepFirst(s, p, e, st) ==
    IF p < st[1] \/ st[2] # None THEN st
    ELSE LET m == MatchAt(s, p, e)
         IN  IF m # None THEN <<m, m>> ELSE st

ScanAt(s, p, e, st) ==
    IF p < st[1] THEN st
    ELSE LET m == MatchAt(s, p, e)
         IN  IF m # None THEN <<m, m>> ELSE st

RECURSIVE ScanBoundaries(_, _, _, _, _)
ScanBoundaries(s, lo, hi, e, st) ==
    IF lo >= hi THEN st
    ELSE IF hi = lo + 1 THEN ScanAt(s, lo, e, st)
    ELSE LET mid == (lo + hi) \div 2
             left == ScanBoundaries(s, lo, mid, e, st)
         IN  IF left[1] >= hi THEN left
             ELSE ScanBoundaries(s, mid, hi, e, left)

(* for m in SentenceBoundaryRegex.finditer(text, start, end): last = m.end() *)
_find_last_boundary(s, a, e) == ScanBoundaries(s, a, e, e, <<a, None>>)[2]

(***************************************************************************)
(* Input texts.                                                            *)
(***************************************************************************)
Alphabet == {"a", " ", ".", "\n"}

RECURSIVE SeqsUpTo(_, _)
SeqsUpTo(S, k) ==
    IF k = 0 THEN {<<>>}
    ELSE LET prev == SeqsUpTo(S, k - 1)
         IN  prev \cup {Append(s, c) : s \in prev, c \in S}

ShortTexts == SeqsUpTo(Alphabet, MaxShortLen)

(* pattern repeated and cut to exactly k characters *)
Fill(pattern, k) == [i \in 1..k |-> pattern[((i - 1) % Len(pattern)) + 1]]

Word == <<"w", "o", "r", "d", " ">>
TwoSentences ==
    <<"F", "i", "r", "s", "t", " ", "s", "e", "n", "t", "e", "n", "c", "e", ".", " ",
      "S", "e", "c", "o", "n", "d", " ", "s", "e", "n", "t", "e", "n", "c", "e", ".", " ">>

Patterns ==
    { <<"a">>, <<" ">>, Word, TwoSentences,
      <<"a", "b", "?", "'", "\n", "\n", " ">>,
      <<".", " ">> }

BlockLens == {k * LenStep : k \in 0..MaxLenSteps}

Blocks == {Fill(p, l) : p \in Patterns, l \in BlockLens}

(* variant of SizeOf: "recursive" is the distinguished strategy *)
SizeOf_RecursiveOnly(s) == IF s = "recursive" THEN 800 ELSE 300

SizeOf(s) == IF s = "small" THEN 300 ELSE 800
OverlapOf(s) == IF s = "small" THEN 50 ELSE 100

Strategies == {"small", "recursive", ""}

(* a first sentence that ends exactly at, or one past, the overlap *)
Prefixes ==
    {Fill(<<"a">>, OverlapOf(st) - d) \o <<".", " ">> :
        st \in Strategies, d \in {1, 2}}

Tails == {<<>>, <<"z">>}

LongTexts ==
    {a \o b \o t : a \in Blocks, b \in Blocks, t \in Tails}
    \cup {h \o a \o t : h \in Prefixes, a \in Blocks, t \in Tails}

Repeat(pattern, r) == Fill(pattern, r * Len(pattern))

(* the 2000-character text of repeated "word " tokens *)
WordText == Repeat(Word, 400)

(* "First sentence. Second sentence. " repeated to more than 800 characters *)
SentenceTexts == {Repeat(TwoSentences, r) : r \in 25..MaxRepeats}

ScenarioTexts == {WordText} \cup SentenceTexts

Texts == ShortTexts \cup LongTexts \cup ScenarioTexts

(* the calls explored: every text with the two named strategies, the      *)
(* short and the scenario texts with an unnamed strategy as well          *)
Calls ==
    (Texts \X {"small", "recursive"})
    \cup ((ShortTexts \cup ScenarioTexts) \X (Strategies \ {"small", "recursive"}))

(***************************************************************************)
(* chunk_text                                                              *)
(***************************************************************************)
MinAdvance(size) == Max(1, size \div 10)

(* lines 80-81: fall back to the hard cut when no boundary was found or   *)
(* the boundary is within overlap characters of start                     *)
SplitPos(found, st, e, ov) ==
    IF found = None \/ found - st <= ov THEN e ELSE found

(* variants of NextStart: without the min_advance floor, without the     *)
(* overlap, and with the min_advance step only                            *)
NextStart_NoFloor(sp, st, ov, ma) == sp - ov

NextStart_NoOverlap(sp, st, ov, ma) == Max(sp, st + ma)

NextStart_MinAdvanceOnly(sp, st, ov, ma) == st + ma

(* lines 88-91 *)
NextStart(sp, st, ov, ma) ==
    LET next_start == Max(sp - ov, st + ma)
    IN  IF next_start <= st THEN st + ma ELSE next_start

(* variant of Emit: a chunk equal to an earlier one is dropped *)
Emit_Dedup(cs, s, a, b) ==
    LET chunk == Strip(Slice(s, a, b))
    IN  IF chunk # <<>> /\ \A i \in 1..Len(cs) : cs[i] # chunk
        THEN Append(cs, chunk) ELSE cs

(* lines 70-72 and 83-85: chunk = text[a:b].strip(); if chunk: append *)
Emit(cs, s, a, b) ==
    LET chunk == Strip(Slice(s, a, b))
    IN  IF chunk # <<>> THEN Append(cs, chunk) ELSE cs

ChunkInit ==
    /\ pc = "call"
    /\ text = rawText
    /\ chunk_size = 0
    /\ overlap = 0
    /\ n = 0
    /\ min_advance = 0
    /\ start = 0
    /\ end = 0
    /\ split_pos = None
    /\ chunks = <<>>
    /\ iters = 0
    /\ windows = <<>>

Sessions == {"s1", "s2"}
ChunkTexts == {"c1", "c2"}
Vectors == {"v1", "v2"}

StoreInit ==
    /\ existing = {}
    /\ points = [s \in Sessions |-> << >>]
    /\ upserted = [s \in Sessions |-> {}]
    /\ response = "none"

Init ==
    /\ \E call \in Calls : rawText = call[1] /\ strategy = call[2]
    /\ ChunkInit
    /\ StoreInit

(* lines 46-47: if not text: return [] *)
ReturnEmpty ==
    /\ pc = "call"
    /\ rawText = <<>>
    /\ pc' = "done"
    /\ UNCHANGED <<rawText, strategy, text, chunk_size, overlap, n, min_advance,
                   start, end, split_pos, chunks, iters, windows>>
    /\ UNCHANGED storeVars

(* lines 49-59: strip, select the configuration, return [text] when it fits *)
ReturnWhole ==
    /\ pc = "call"
    /\ rawText # <<>>
    /\ LET stripped == Strip(rawText)
       IN  /\ Len(stripped) <= SizeOf(strategy)
           /\ text' = stripped
           /\ n' = Len(stripped)
           /\ chunks' = <<stripped>>
    /\ chunk_size' = SizeOf(strategy)
    /\ overlap' = OverlapOf(strategy)
    /\ pc' = "done"
    /\ UNCHANGED <<rawText, strategy, min_advance, start, end, split_pos, iters,
                   windows>>
    /\ UNCHANGED storeVars

(* lines 49-64: strip, select the configuration, enter the scan loop *)
EnterLoop ==
    /\ pc = "call"
    /\ rawText # <<>>
    /\ LET stripped == Strip(rawText)
       IN  /\ Len(stripped) > SizeOf(strategy)
           /\ text' = stripped
           /\ n' = Len(stripped)
    /\ chunk_size' = SizeOf(strategy)
    /\ overlap' = OverlapOf(strategy)
    /\ chunks' = <<>>
    /\ start' = 0
    /\ min_advance' = MinAdvance(SizeOf(strategy))
    /\ pc' = "loop"
    /\ UNCHANGED <<rawText, strategy, end, split_pos, iters, windows>>
    /\ UNCHANGED storeVars

(* lines 66-73: the iteration whose window reaches the end of the text *)
LastWindow ==
    /\ pc = "loop"
    /\ start < n
    /\ Min(start + chunk_size, n) = n
    /\ end' = n
    /\ chunks' = Emit(chunks, text, start, n)
    /\ windows' = Append(windows, <<start, n>>)
    /\ iters' = iters + 1
    /\ pc' = "done"
    /\ UNCHANGED <<rawText, strategy, text, chunk_size, overlap, n, min_advance,
                   start, split_pos>>
    /\ UNCHANGED storeVars

(* lines 66-93: an iteration that splits and moves the cursor *)
SplitWindow ==
    /\ pc = "loop"
    /\ start < n
    /\ LET e == Min(start + chunk_size, n)
           sp == SplitPos(_find_last_boundary(text, start, e), start, e, overlap)
       IN  /\ e # n
           /\ end' = e
           /\ split_pos' = sp
           /\ chunks' = Emit(chunks, text, start, sp)
           /\ windows' = Append(windows, <<start, sp>>)
           /\ start' = NextStart(sp, start, overlap, min_advance)
    /\ iters' = iters + 1
    /\ UNCHANGED <<rawText, strategy, pc, text, chunk_size, overlap, n,
                   min_advance>>
    /\ UNCHANGED storeVars

(* The loop is left only through the break of line 73: `while start < n`  *)
(* (line 66) never fails, see C3_BoundedProgress.                         *)
Next == ReturnEmpty \/ ReturnWhole \/ EnterLoop \/ LastWindow \/ SplitWindow

Spec == Init /\ [][Next]_vars

(***************************************************************************)
(* VectorDB and upload_document                                            *)
(***************************************************************************)
RECURSIVE SeqsOfLen(_, _)
SeqsOfLen(S, k) ==
    IF k = 0 THEN {<<>>}
    ELSE {Append(s, c) : s \in SeqsOfLen(S, k - 1), c \in S}

StoreSpecInit ==
    /\ rawText = <<>>
    /\ strategy = "recursive"
    /\ ChunkInit
    /\ StoreInit

(* VectorDB.__init__ and _init_collection: create the collection if absent *)
InitCollection(ex, s) == ex \cup {s}

(* VectorDB.upsert: the points are numbered from 0 in every call, and     *)
(* QdrantClient.upsert replaces the stored point that has the same id     *)
UpsertPoints(old, cs, es) ==
    [i \in DOMAIN old \cup 0..(Len(cs) - 1) |->
        IF i < Len(cs) THEN [vector |-> es[i + 1], text |-> cs[i + 1]]
                       ELSE old[i]]

NewVectorDB(s) ==
    /\ s \notin existing
    /\ existing' = InitCollection(existing, s)
    /\ UNCHANGED <<points, upserted, response>>
    /\ UNCHANGED chunkVars

(* VectorDB(session_id).upsert(chunks, embeddings), one embedding a chunk *)
Upsert(s, cs, es) ==
    /\ s \in existing
    /\ Len(es) = Len(cs)
    /\ points' = [points EXCEPT ![s] = UpsertPoints(@, cs, es)]
    /\ upserted' = [upserted EXCEPT
                       ![s] = @ \cup {<<cs[i], es[i]>> : i \in 1..Len(cs)}]
    /\ UNCHANGED <<existing, response>>
    /\ UNCHANGED chunkVars

(* upload_document: VectorDB(session_id) is built (line 17), then         *)
(* extract_text_from_pdf raises AttributeError at extractor.py line 8     *)
(* (str has no method endwith), so lines 19-32 are not reached.           *)
UploadDocument(s) ==
    /\ existing' = InitCollection(existing, s)
    /\ response' = "AttributeError"
    /\ UNCHANGED <<points, upserted>>
    /\ UNCHANGED chunkVars

StoreNext ==
    \E s \in Sessions :
        \/ NewVectorDB(s)
        \/ UploadDocument(s)
        \/ \E k \in 1..MaxDocChunks :
             \E cs \in SeqsOfLen(ChunkTexts, k), es \in SeqsOfLen(Vectors, k) :
                Upsert(s, cs, es)

StoreSpec == StoreSpecInit /\ [][StoreNext]_vars

(***************************************************************************)
(* Properties                                                              *)
(***************************************************************************)
CeilDiv(a, b) == (a + b - 1) \div b

Blank(s) == \A i \in 1..Len(s) : s[i] \in Whitespace

(* the scan loop was entered *)
Scanned == n > chunk_size

(* trimmed content of a recorded window *)
Trimmed(w) == Strip(Slice(text, w[1], w[2]))

BlankWindow(w) == \A i \in (w[1] + 1)..w[2] : text[i] \in Whitespace

(* t is s without its leading and trailing whitespace *)
IsTrimOf(t, s) ==
    IF t = <<>> THEN Blank(s)
    ELSE /\ t[1] \notin Whitespace
         /\ t[Len(t)] \notin Whitespace
         /\ \E i \in 0..(Len(s) - Len(t)) :
               /\ s[i + 1] = t[1]
               /\ \A k \in 1..i : s[k] \in Whitespace
               /\ \A k \in (i + Len(t) + 1)..Len(s) : s[k] \in Whitespace
               /\ SubSeq(s, i + 1, i + Len(t)) = t

(* the text has no match of the sentence-boundary pattern *)
NoBoundary == \A p \in 0..(n - 1) : MatchAt(text, p, n) = None

(* C1: every element of the returned sequence is a non-empty string with  *)
(* no leading or trailing whitespace, whatever the text and the strategy. *)
C1_ChunksNonEmptyTrimmed ==
    \A i \in 1..Len(chunks) :
        /\ chunks[i] # <<>>
        /\ chunks[i][1] \notin Whitespace
        /\ chunks[i][Len(chunks[i])] \notin Whitespace

(* C2: on the empty text and on a text made only of whitespace the        *)
(* returned sequence is empty, for every strategy.                        *)
C2_BlankGivesEmpty ==
    pc = "done" /\ Blank(rawText) => chunks = <<>>

(* C3: chunk_text terminates: every iteration that does not stop moves   *)
(* start forward by at least min_advance (30 for "small", 80 otherwise),  *)
(* the guard start < n holds at every loop head, so the loop is left      *)
(* through the break only, and it runs at most ceil(n / min_advance)      *)
(* iterations.                                                            *)
C3_BoundedProgress ==
    /\ [][pc = "loop" /\ pc' = "loop" => start' >= start + min_advance]_vars
    /\ [](pc = "loop" => start < n /\ start >= iters * min_advance)
    /\ [](Scanned => /\ min_advance = IF strategy = "small" THEN 30 ELSE 80
                     /\ iters <= CeilDiv(n, min_advance))

C3_Witness ==
    /\ pc = "done"
    /\ strategy = "recursive"
    /\ iters >= 3
    /\ \E k \in 1..(iters - 1) : windows[k + 1][1] = windows[k][1] + min_advance

(* C4: the chunks are the non-blank trimmed windows in scan order, one    *)
(* chunk per such window (equal contents are kept), and from one window   *)
(* to the next both the start and the split offsets strictly increase.    *)
C4_OrderPreserved ==
    /\ Scanned =>
         LET emitted == SelectSeq(windows, LAMBDA w : Trimmed(w) # <<>>)
         IN  /\ chunks = [k \in 1..Len(emitted) |-> Trimmed(emitted[k])]
             /\ \A k \in 2..Len(windows) :
                   /\ windows[k][1] > windows[k - 1][1]
                   /\ windows[k][2] > windows[k - 1][2]
    /\ pc = "done" /\ ~Scanned /\ rawText # <<>> =>
         chunks = <<Strip(Slice(text, 0, n))>>

C4_Witness ==
    /\ pc = "done"
    /\ Len(chunks) >= 3
    /\ chunks[1] = chunks[2]
    /\ windows[1][1] < windows[2][1]

(* C5: only "small" selects (300, 50), every other strategy (800, 100);   *)
(* every window and every returned chunk is at most chunk_size long.      *)
C5_SizeBound ==
    /\ pc # "call" /\ rawText # <<>> =>
         /\ chunk_size = IF strategy = "small" THEN 300 ELSE 800
         /\ overlap = IF strategy = "small" THEN 50 ELSE 100
    /\ \A i \in 1..Len(chunks) :
         Len(chunks[i]) <= IF strategy = "small" THEN 300 ELSE 800
    /\ \A k \in 1..Len(windows) : windows[k][2] - windows[k][1] <= chunk_size

C5_Witness ==
    /\ pc = "done"
    /\ strategy = ""
    /\ Len(chunks) >= 2
    /\ Len(chunks[1]) > 300

(* C6: a non-empty text whose trimmed length is at most chunk_size gives  *)
(* exactly one chunk, the trimmed text.                                   *)
C6_SingleChunk ==
    pc = "done" /\ rawText # <<>> /\ Len(Strip(rawText)) <= SizeOf(strategy) =>
        /\ Len(chunks) = 1
        /\ IsTrimOf(chunks[1], rawText)

C6_Witness ==
    /\ pc = "done"
    /\ iters = 0
    /\ Len(chunks) = 1
    /\ Len(chunks[1]) = chunk_size
    /\ Len(rawText) > chunk_size

(* C7: after a non-terminal iteration whose window holds a boundary match *)
(* ending more than overlap characters after start, split_pos is the end  *)
(* of the rightmost match in the window; and for "First sentence. Second  *)
(* sentence. " repeated past 800 characters with strategy "recursive"     *)
(* every chunk but the last ends with a full stop.                        *)
C7_RightmostBoundary ==
    /\ pc = "loop" /\ iters > 0 =>
         LET a == windows[iters][1]
             ends == {MatchAt(text, p, end) : p \in a..(end - 1)} \ {None}
         IN  (\E m \in ends : m - a > overlap) =>
                /\ split_pos \in ends
                /\ \A m \in ends : m <= split_pos
    /\ pc = "done" /\ strategy = "recursive" /\ rawText \in SentenceTexts =>
         \A i \in 1..(Len(chunks) - 1) : chunks[i][Len(chunks[i])] = "."

C7_Witness ==
    /\ pc = "loop"
    /\ iters > 0
    /\ strategy = "recursive"
    /\ rawText \in SentenceTexts
    /\ split_pos < end
    /\ \E p \in 0..(split_pos - 1) :
          MatchAt(text, p, end) # None /\ MatchAt(text, p, end) < split_pos

(* number of iterations when every split is a hard cut *)
HardCutCount == CeilDiv(n - chunk_size, chunk_size - overlap) + 1

(* C8 as stated: with no boundary match and n > chunk_size the result has *)
(* ceil((n - chunk_size) / (chunk_size - overlap)) + 1 chunks, each at    *)
(* most chunk_size long.                                                  *)
C8_HardCutChunkCount ==
    pc = "done" /\ Scanned /\ NoBoundary =>
        /\ Len(chunks) = HardCutCount
        /\ \A i \in 1..Len(chunks) : Len(chunks[i]) <= chunk_size

(* C8 amended: with no boundary match and n > chunk_size every            *)
(* non-terminal iteration cuts at start + chunk_size and advances by      *)
(* chunk_size - overlap, the loop runs HardCutCount iterations, and the   *)
(* result has one chunk per window that is not blank, each at most        *)
(* chunk_size long (read off the finished call, whose window history is   *)
(* complete); the 2000-character "word " text with "small" gives a chunk  *)
(* count within 1 of 8.                                                   *)
C8_HardCutIterations ==
    /\ pc = "done" /\ Scanned /\ NoBoundary =>
         /\ \A k \in 1..Len(windows) :
               /\ windows[k][1] = (k - 1) * (chunk_size - overlap)
               /\ windows[k][2] = Min(windows[k][1] + chunk_size, n)
         /\ iters = HardCutCount
         /\ Len(chunks) =
               iters - Cardinality({k \in 1..iters : BlankWindow(windows[k])})
         /\ \A i \in 1..Len(chunks) : Len(chunks[i]) <= chunk_size
    /\ pc = "done" /\ rawText = WordText /\ strategy = "small" =>
         /\ NoBoundary
         /\ Len(chunks) \in 7..9
         /\ \A i \in 1..Len(chunks) : Len(chunks[i]) <= 300

C8_Witness ==
    /\ pc = "done"
    /\ Scanned
    /\ NoBoundary
    /\ Len(chunks) < iters

(* C9: consecutive windows leave no gap and share at most overlap         *)
(* characters: 0 < split_pos - next_start <= overlap, with min_advance <  *)
(* overlap < split_pos - start, so the windows cover the trimmed text.    *)
C9_NoGapBoundedOverlap ==
    Scanned =>
        /\ min_advance < overlap
        /\ \A k \in 1..(Len(windows) - 1) :
              /\ overlap < windows[k][2] - windows[k][1]
              /\ 0 < windows[k][2] - windows[k + 1][1]
              /\ windows[k][2] - windows[k + 1][1] <= overlap
        /\ pc = "loop" /\ iters > 0 =>
              0 < split_pos - start /\ split_pos - start <= overlap
        /\ windows # <<>> => windows[1][1] = 0
        /\ pc = "done" => windows[Len(windows)][2] = n

C9_Witness ==
    /\ pc = "done"
    /\ Len(windows) >= 3
    /\ windows[1][2] - windows[2][1] < overlap
    /\ windows[2][2] - windows[3][1] = overlap

(* C10: every (chunk text, vector) pair handed to upsert for a session    *)
(* is still a point of the session's collection: a later upsert neither   *)
(* overwrites nor removes it.                                             *)
C10_UploadsAccumulate ==
    \A s \in Sessions :
        \A p \in upserted[s] :
            \E i \in DOMAIN points[s] :
                points[s][i].text = p[1] /\ points[s][i].vector = p[2]

====
